---- MODULE Spec2Model ----
(***************************************************************************)
(* Model of src/main.py: the Ulauncher front end for Taskwarrior.          *)
(*                                                                         *)
(* Text is a sequence of atoms.  An atom is one character ("a", " ", "'")  *)
(* or, for a literal of the program that holds no whitespace and no shell  *)
(* metacharacter, the whole literal ("task", "annotate").  Descriptions,   *)
(* identifiers and user arguments are always character by character.       *)
(* An absent argument (get_argument() returning None) is the empty text:   *)
(* every use in the source tests it with `or ""` or `not query`.           *)
(***************************************************************************)
EXTENDS Integers, Sequences, FiniteSets, TLC

\* ------------------------------------------------------------------ bounds
MaxTasks == 3        \* longest export sequence enumerated
MaxArgLen == 4       \* longest Annotate argument enumerated

\* ------------------------------------------------------------ text helpers
Min(a, b) == IF a < b THEN a ELSE b

Whitespace == {" ", "\t", "\n"}

\* s[:n]
Prefix(s, n) == SubSeq(s, 1, Min(n, Len(s)))

\* s[n:]  (n is a 0-based start, as in Python)
Suffix(s, n) == SubSeq(s, n + 1, Len(s))

RECURSIVE Reverse(_)
Reverse(s) == IF s = <<>> THEN <<>> ELSE Append(Reverse(Tail(s)), Head(s))

\* str.strip()
RECURSIVE LStrip(_)
LStrip(s) == IF s # <<>> /\ Head(s) \in Whitespace THEN LStrip(Tail(s)) ELSE s

Strip(s) == Reverse(LStrip(Reverse(LStrip(s))))

\* index of the first atom of s that lies in set cs, 0 when there is none
RECURSIVE FindFirst(_, _, _)
FindFirst(s, cs, i) ==
    IF i > Len(s) THEN 0
    ELSE IF s[i] \in cs THEN i
    ELSE FindFirst(s, cs, i + 1)

\* ------------------------------------------------------------- UUID_REGEX
\* r'^[0-9a-f]{8}-[0-9a-f]{4}-[0-9a-f]{4}-[0-9a-f]{4}-[0-9a-f]{12}$', re.IGNORECASE
UUID_GROUPS == <<8, 4, 4, 4, 12>>

HexClass == {"0", "1", "2", "3", "4", "5", "6", "7", "8", "9",
             "a", "b", "c", "d", "e", "f"}

LowerOf == [c \in {"A", "B", "C", "D", "E", "F", "G", "X"} |->
              CASE c = "A" -> "a" [] c = "B" -> "b" [] c = "C" -> "c"
                [] c = "D" -> "d" [] c = "E" -> "e" [] c = "F" -> "f"
                [] c = "G" -> "g" [] c = "X" -> "x"]

UpperOf == [c \in {"a", "b", "c", "d", "e", "f"} |->
              CASE c = "a" -> "A" [] c = "b" -> "B" [] c = "c" -> "C"
                [] c = "d" -> "D" [] c = "e" -> "E" [] c = "f" -> "F"]

\* re.IGNORECASE: a character matches the class when its lower case does
InHexClass(c) == IF c \in DOMAIN LowerOf THEN LowerOf[c] \in HexClass
                 ELSE c \in HexClass

\* position after groups g.. matched from pos, 0 when the match fails
RECURSIVE MatchGroups(_, _, _)
MatchGroups(s, pos, g) ==
    LET endp == pos + UUID_GROUPS[g] IN
    IF endp - 1 > Len(s) \/ \E i \in pos..(endp - 1) : ~InHexClass(s[i]) THEN 0
    ELSE IF g = Len(UUID_GROUPS) THEN endp
    ELSE IF endp > Len(s) \/ s[endp] # "-" THEN 0
    ELSE MatchGroups(s, endp + 1, g + 1)

\* `$` matches at the end of the string and also just before a final newline
DollarAt(s, e) == e = Len(s) + 1 \/ (e = Len(s) /\ s[e] = "\n")

\* the pattern without its `$`
UUID_REGEX_match_unanchored(s) == MatchGroups(s, 1, 1) # 0

UUID_REGEX_match(s) ==
    LET e == MatchGroups(s, 1, 1) IN e # 0 /\ DollarAt(s, e)

\* ------------------------------------------------------- results and items
\* What a call hands back: a rendered list (RenderResultListAction), None,
\* an exception that leaves the function, or no return at all.
Render(items) == [kind |-> "Render", items |-> items, exc |-> "none"]
ReturnNone == [kind |-> "None", items |-> <<>>, exc |-> "none"]
Raise(e) == [kind |-> "Raise", items |-> <<>>, exc |-> e]
Block == [kind |-> "Block", items |-> <<>>, exc |-> "none"]

HideWindowAction == [type |-> "HideWindow", arg |-> <<>>]
RunScriptAction(command) == [type |-> "RunScript", arg |-> command]
SetUserQueryAction(query) == [type |-> "SetUserQuery", arg |-> query]

ExtensionResultItem(icon, name, description, on_enter) ==
    [icon |-> icon, name |-> name, description |-> description,
     on_enter |-> on_enter]

show_error_item(title, description) ==
    Render(<<ExtensionResultItem("images/icon.png", title, description,
                                 HideWindowAction)>>)

\* ------------------------------------------------------ external processes
\* Outcome of subprocess.run(..., check=True) with no timeout argument:
\*   ok        exit status 0
\*   nonzero   CalledProcessError
\*   notfound  FileNotFoundError (no such binary on PATH)
\*   noexec    PermissionError (binary found but not executable)
\*   hang      the child never exits, so run() never returns
RunOutcomes == {"ok", "nonzero", "notfound", "noexec", "hang"}

ExcOf == [o \in {"nonzero", "notfound", "noexec"} |->
            CASE o = "nonzero" -> "CalledProcessError"
              [] o = "notfound" -> "FileNotFoundError"
              [] o = "noexec" -> "PermissionError"]

\* is_tool_installed(name), given how running [name, '--version'] ends
is_tool_installed(run) ==
    CASE run = "ok" -> [kind |-> "Return", val |-> TRUE, exc |-> "none"]
      [] run \in {"notfound", "nonzero"} ->
            [kind |-> "Return", val |-> FALSE, exc |-> "none"]
      [] run = "noexec" ->
            [kind |-> "Raise", val |-> FALSE, exc |-> ExcOf[run]]
      [] run = "hang" -> [kind |-> "Block", val |-> FALSE, exc |-> "none"]

\* ---------------------------------------------------------- AddTaskListener
AddTaskListener_on_event(argument) ==
    IF argument = <<>>
    THEN show_error_item(<<"Please enter a description for the new task.">>, <<>>)
    ELSE Render(<<ExtensionResultItem("images/icon.png",
                    <<"Add task: '">> \o argument \o <<"'">>,
                    <<"Press Enter to add this task to Taskwarrior">>,
                    RunScriptAction(<<"task", " ", "rc.confirmation=off", " ",
                                      "add", " ">> \o argument))>>)

\* -------------------------------------------------------- ListTasksListener
\* A parsed JSON value is [type, val]: type "dict" with val the object's
\* members, or another type (number, string, null) with no members.
isinstance_dict(task) == task.type = "dict"

\* key=lambda t: t.get('urgency', 0)
UrgencyKey(task) ==
    IF "urgency" \in DOMAIN task.val THEN task.val.urgency ELSE 0

\* list.sort is stable: an element goes after every element whose key is
\* not greater than its own
RECURSIVE InsertStable(_, _, _)
InsertStable(tasks, sorted, x) ==
    IF sorted = <<>> THEN <<x>>
    ELSE IF UrgencyKey(tasks[Head(sorted)]) <= UrgencyKey(tasks[x])
         THEN <<Head(sorted)>> \o InsertStable(tasks, Tail(sorted), x)
         ELSE <<x>> \o sorted

RECURSIVE StableSortAsc(_, _)
StableSortAsc(tasks, idx) ==
    IF idx = <<>> THEN <<>>
    ELSE InsertStable(tasks, StableSortAsc(tasks, SubSeq(idx, 1, Len(idx) - 1)),
                      idx[Len(idx)])

\* an ascending stable sort reversed afterwards: ties come out backwards
sorted_reverse_unstable(tasks) ==
    Reverse(StableSortAsc(tasks, [i \in 1..Len(tasks) |-> i]))

\* sorted(tasks, key=..., reverse=True), as positions of the export output.
\* CPython reverses the list, sorts it stably in ascending order and
\* reverses the result, which keeps equal keys in their original order.
sorted_reverse(tasks) ==
    Reverse(StableSortAsc(tasks, Reverse([i \in 1..Len(tasks) |-> i])))

\* cutting at the limit instead of three short of it
display_text_cut50(description) ==
    IF Len(description) > 50
    THEN Prefix(description, 50) \o <<".", ".", ".">>
    ELSE description

\* (description[:47] + '...') if len(description) > 50 else description
display_text(description) ==
    IF Len(description) > 50
    THEN Prefix(description, 47) \o <<".", ".", ".">>
    ELSE description

\* the body of the inner try: a KeyError skips the record
RecordKept(task, preferences) ==
    /\ isinstance_dict(task)
    /\ "description" \in DOMAIN task.val
    /\ "uuid" \in DOMAIN task.val
    /\ "list_kw" \in DOMAIN preferences

\* positions of the export output in the order their items are appended
ListEmitted(tasks, preferences) ==
    LET order == sorted_reverse(tasks)
        Kept(i) == RecordKept(tasks[i], preferences)
    IN SelectSeq(order, Kept)

\* the follow-up query without the blank between keyword and uuid
TaskItem_unseparated(task, preferences) ==
    ExtensionResultItem("images/icon.png",
        display_text(task.val.description),
        <<"Press Enter to see actions for this task...">>,
        SetUserQueryAction(preferences.list_kw \o task.val.uuid))

TaskItem(task, preferences) ==
    ExtensionResultItem("images/icon.png",
        display_text(task.val.description),
        <<"Press Enter to see actions for this task...">>,
        SetUserQueryAction(preferences.list_kw \o <<" ">> \o task.val.uuid))

\* the for loop is reached: the export exited with status 0 and printed a
\* non-empty array whose elements all have a .get
ListRendered(run, stdout) ==
    /\ run = "ok"
    /\ stdout.kind = "array"
    /\ stdout.tasks # <<>>
    /\ \A i \in 1..Len(stdout.tasks) : isinstance_dict(stdout.tasks[i])

\* run: how `task <filter> rc.verbose=nothing export` ends; stdout: its
\* output when it exits with status 0
ListTasksListener_on_event(argument, preferences, run, stdout) ==
    LET user_filter == IF argument = <<>> THEN <<"+READY">> ELSE argument
        Unexpected(e) == show_error_item(<<"An Unexpected Error Occurred">>, <<e>>)
    IN
    IF run = "hang" THEN Block
    ELSE IF run # "ok" THEN Unexpected(ExcOf[run])
    ELSE IF stdout.kind # "array" THEN Unexpected("JSONDecodeError")
    ELSE IF stdout.tasks = <<>>
         THEN show_error_item(<<"No tasks found for filter: '">> \o user_filter
                                \o <<"'">>, <<>>)
    ELSE IF \E i \in 1..Len(stdout.tasks) : ~isinstance_dict(stdout.tasks[i])
         THEN Unexpected("AttributeError")
    ELSE LET emitted == ListEmitted(stdout.tasks, preferences) IN
         Render([i \in 1..Len(emitted) |->
                    TaskItem(stdout.tasks[emitted[i]], preferences)])

\* --------------------------------------------------- TaskActionMenuListener
\* run: how `taskopen --version` ends
TaskActionMenuListener_on_event(argument, preferences, run) ==
    LET uuid == argument
        short == Prefix(uuid, 8)
        Cmd(verb) == RunScriptAction(<<"task", " ">> \o uuid \o <<" ", verb>>)
        actions ==
          << ExtensionResultItem("images/icon.png", <<"Mark as Done">>,
                 <<"Mark task ">> \o short \o <<"... as done">>, Cmd("done")),
             ExtensionResultItem("images/icon.png", <<"Start Task">>,
                 <<"Start tracking task ">> \o short \o <<"...">>, Cmd("start")),
             ExtensionResultItem("images/icon.png", <<"Stop Task">>,
                 <<"Stop tracking task ">> \o short \o <<"...">>, Cmd("stop")),
             ExtensionResultItem("images/icon.png", <<"Annotate Task">>,
                 <<"Add a note to task ">> \o short \o <<"...">>,
                 SetUserQueryAction(preferences.annotate_kw \o <<" ">> \o uuid
                                      \o <<" ">>)),
             ExtensionResultItem("images/gavel.png", <<"Delete Task">>,
                 <<"Permanently delete task ">> \o short \o <<"...">>,
                 RunScriptAction(<<"task", " ", "rc.confirmation=off", " ">>
                                   \o uuid \o <<" ", "delete">>)) >>
        open == ExtensionResultItem("images/icon.png", <<"Open Task">>,
                 <<"Open task ">> \o short \o <<"... with taskopen">>,
                 RunScriptAction(<<"taskopen", " ">> \o uuid))
        installed == is_tool_installed(run)
    IN
    IF "annotate_kw" \notin DOMAIN preferences THEN Raise("KeyError")
    ELSE IF installed.kind = "Block" THEN Block
    ELSE IF installed.kind = "Raise" THEN Raise(installed.exc)
    ELSE IF installed.val THEN Render(Append(actions, open))
    ELSE Render(actions)

\* ----------------------------------------------------- AnnotateTaskListener
\* the characters outside shlex's safe class [\w@%+=:,./-] that occur here
ShellUnsafe == {" ", "\t", "\n", "'", "\"", "$", "\\"}

\* s.replace("'", "'\"'\"'")
RECURSIVE ReplaceQuotes(_)
ReplaceQuotes(s) ==
    IF s = <<>> THEN <<>>
    ELSE IF Head(s) = "'"
         THEN <<"'", "\"", "'", "\"", "'">> \o ReplaceQuotes(Tail(s))
         ELSE <<Head(s)>> \o ReplaceQuotes(Tail(s))

\* wrapping in single quotes without rewriting the quotes inside
shlex_quote_unescaped(s) ==
    IF s = <<>> THEN <<"'", "'">>
    ELSE IF \A i \in 1..Len(s) : s[i] \notin ShellUnsafe THEN s
    ELSE <<"'">> \o s \o <<"'">>

\* shlex.quote(s)
shlex_quote(s) ==
    IF s = <<>> THEN <<"'", "'">>
    ELSE IF \A i \in 1..Len(s) : s[i] \notin ShellUnsafe THEN s
    ELSE <<"'">> \o ReplaceQuotes(s) \o <<"'">>

\* query.split(' ', 1), for a query that holds a space
split_first_space(query) ==
    LET k == FindFirst(query, {" "}, 1) IN
    <<SubSeq(query, 1, k - 1), SubSeq(query, k + 1, Len(query))>>

AnnotateTaskListener_on_event(argument) ==
    IF argument = <<>> \/ FindFirst(argument, {" "}, 1) = 0
    THEN show_error_item(<<"Usage: ta <uuid> <annotation text>">>, <<>>)
    ELSE LET parts == split_first_space(argument)
             uuid == parts[1]
             annotation_text == parts[2]
             safe_annotation == shlex_quote(annotation_text)
             command == <<"task", " ">> \o uuid \o <<" ", "annotate", " ">>
                          \o safe_annotation
         IN Render(<<ExtensionResultItem("images/icon.png",
                        <<"Add annotation to task ">> \o Prefix(uuid, 8) \o <<"...">>,
                        <<"Note: '">> \o annotation_text \o <<"'">>,
                        RunScriptAction(command))>>)

\* ------------------------------------------------ KeywordQueryEventListener
\* The routing decision of on_event once the probe has succeeded: the
\* listener the event goes to, "None" when no branch matches, "KeyError"
\* when a preference looked up on the way is missing.
RouteTarget(keyword, argument, preferences) ==
    IF "list_kw" \notin DOMAIN preferences THEN "KeyError"
    ELSE IF keyword = preferences.list_kw
         THEN IF UUID_REGEX_match(Strip(argument)) THEN "ActionMenu"
              ELSE "ListTasks"
    ELSE IF "add_kw" \notin DOMAIN preferences THEN "KeyError"
    ELSE IF keyword = preferences.add_kw THEN "AddTask"
    ELSE IF "annotate_kw" \notin DOMAIN preferences THEN "KeyError"
    ELSE IF keyword = preferences.annotate_kw THEN "Annotate"
    ELSE "None"

\* on_event(event, extension): probe, export and opener are how the three
\* external invocations end if they are made; stdout is the export's output.
\* The value is the listener reached and what the call hands back.
KeywordQueryEventListener_on_event(keyword, argument, preferences, probe, export, stdout, opener) ==
    LET installed == is_tool_installed(probe)
        target == RouteTarget(keyword, argument, preferences)
    IN
    IF installed.kind = "Block" THEN [handler |-> "none", result |-> Block]
    ELSE IF installed.kind = "Raise"
         THEN [handler |-> "none", result |-> Raise(installed.exc)]
    ELSE IF ~installed.val
         THEN [handler |-> "none",
               result |-> show_error_item(<<"Taskwarrior not found.">>,
                   <<"Please ensure 'task' is installed and in your PATH.">>)]
    ELSE CASE target = "KeyError" ->
                [handler |-> "none", result |-> Raise("KeyError")]
           [] target = "None" ->
                [handler |-> "none", result |-> ReturnNone]
           [] target = "ActionMenu" ->
                [handler |-> target,
                 result |-> TaskActionMenuListener_on_event(argument,
                                preferences, opener)]
           [] target = "ListTasks" ->
                [handler |-> target,
                 result |-> ListTasksListener_on_event(argument, preferences,
                                export, stdout)]
           [] target = "AddTask" ->
                [handler |-> target,
                 result |-> AddTaskListener_on_event(argument)]
           [] target = "Annotate" ->
                [handler |-> target,
                 result |-> AnnotateTaskListener_on_event(argument)]

\* ------------------------------------------------------------ host boundary
\* Query.get_keyword() / get_argument() on the text a SetUserQueryAction
\* leaves in the input box: str.split(None, 1)
HostParse(text) ==
    LET t == LStrip(text)
        k == FindFirst(t, Whitespace, 1)
    IN IF k = 0 THEN [keyword |-> t, argument |-> <<>>]
       ELSE [keyword |-> SubSeq(t, 1, k - 1), argument |-> LStrip(Suffix(t, k))]

\* ------------------------------------------------------------------ inputs
U1 == <<"3", "b", "1", "f", "9", "c", "2", "a", "-", "4", "e", "5", "d", "-",
        "4", "a", "1", "1", "-", "9", "c", "3", "e", "-", "7", "f", "2", "a",
        "1", "b", "6", "d", "9", "e", "0", "0">>
U2 == <<"0", "A", "1", "B", "2", "C", "3", "D", "-", "4", "E", "5", "F", "-",
        "4", "a", "6", "b", "-", "8", "C", "7", "D", "-", "9", "e", "0", "f",
        "1", "A", "2", "B", "3", "C", "4", "D">>

ToUpper(s) == [i \in 1..Len(s) |->
                 IF s[i] \in DOMAIN UpperOf THEN UpperOf[s[i]] ELSE s[i]]

\* s with position i replaced by c / removed
ReplaceAt(s, i, c) == [j \in 1..Len(s) |-> IF j = i THEN c ELSE s[j]]
RemoveAt(s, i) == SubSeq(s, 1, i - 1) \o SubSeq(s, i + 1, Len(s))

\* positions at the edges of the five groups and the hyphens between them
EdgePositions == {1, 8, 9, 10, 13, 14, 15, 18, 19, 20, 23, 24, 25, 36}

\* arguments that are, or nearly are, identifiers
UuidLikeArgs ==
    {U1, U2, ToUpper(U1)}
    \cup {U1 \o <<c>> : c \in {"x", "0", "-", " ", "\n", "\t"}}
    \cup {<<c>> \o U1 : c \in {"x", "0", " "}}
    \cup {<<" ", " ">> \o U2 \o <<" ">>, U1 \o <<" ", "x">>, U1 \o <<"\n", "x">>,
          U1 \o <<"\n", "\n">>}
    \cup {ReplaceAt(U1, i, c) : i \in EdgePositions, c \in {"g", "-", "0", "G", " "}}
    \cup {RemoveAt(U1, i) : i \in EdgePositions}
    \cup {SelectSeq(U1, LAMBDA c : c # "-")}

CommonArgs ==
    {<<>>, <<"+", "w", "o", "r", "k">>, <<"p", "r", "o", "j", "e", "c", "t", ":",
       "h", "o", "m", "e", " ", "+", "n", "e", "x", "t">>, U1,
     <<"B", " ", "n", "o", "t", "e", " ", "w", "i", "t", "h", " ", "s", "p", "a",
       "c", "e", "s">>,
     U1 \o <<" ">>, U1 \o <<" ", "i", "t", "'", "s", " ", "$", "x">>,
     <<"B", "\t", "n", "o", "t", "e">>}

AnnotateAlphabet == {"a", " ", "'", "$", "\"", "\\"}

RECURSIVE SeqsUpTo(_, _)
SeqsUpTo(S, n) ==
    IF n = 0 THEN {<<>>}
    ELSE LET shorter == SeqsUpTo(S, n - 1) IN
         shorter \cup {Append(s, c) : s \in shorter, c \in S}

AnnotateArgs == SeqsUpTo(AnnotateAlphabet, MaxArgLen)

ListKw == <<"tl">>
AddKw == <<"tn">>
AnnotateKw == <<"ta">>
Keywords == {ListKw, AddKw, AnnotateKw, <<"zz">>}

\* the queries a user types
TypedQueries ==
    {[keyword |-> k, argument |-> a] : k \in Keywords, a \in CommonArgs}
    \cup {[keyword |-> ListKw, argument |-> a] : a \in UuidLikeArgs}
    \cup {[keyword |-> AnnotateKw, argument |-> a] : a \in AnnotateArgs}

\* extension.preferences: the manifest's keywords; the second bundle lacks
\* the annotate keyword
PreferencesChoices ==
    {[list_kw |-> ListKw, add_kw |-> AddKw, annotate_kw |-> AnnotateKw],
     [list_kw |-> ListKw, add_kw |-> AddKw]}

\* a description of n characters, every position recognisable
Desc(n) == [i \in 1..n |-> ToString(i % 10)]

Dict(val) == [type |-> "dict", val |-> val]

\* the values the export array can hold
TaskRecords ==
    {Dict([uuid |-> U1, description |-> Desc(51), urgency |-> 1]),
     Dict([uuid |-> U2, description |-> Desc(50), urgency |-> 1]),
     Dict([uuid |-> U1, description |-> <<"s", "h", "o", "r", "t">>]),
     Dict([uuid |-> <<"A">>, description |-> <<"x">>, urgency |-> -1]),
     Dict([description |-> <<"n", "o", " ", "i", "d">>, urgency |-> 2]),
     Dict([uuid |-> U2]),
     [type |-> "int", val |-> [k \in {} |-> 0]]}

NoStdout == [kind |-> "none", tasks |-> <<>>]

\* what the export prints when it exits with status 0: nothing, text that
\* is not JSON, or a JSON array
Stdouts ==
    {[kind |-> "empty", tasks |-> <<>>], [kind |-> "malformed", tasks |-> <<>>]}
    \cup {[kind |-> "array", tasks |-> t] : t \in SeqsUpTo(TaskRecords, MaxTasks)}

\* ------------------------------------------------------------------- state
VARIABLES
    preferences,  \* extension.preferences
    pc,           \* "idle", "pending" (a query awaits on_event), "done",
                  \* "blocked" (on_event never returned)
    query,        \* the KeywordQueryEvent: keyword and argument
    origin,       \* where the query came from: typed, or the follow-up of an item
    probe,        \* how `task --version` ended for this query
    export,       \* how the export ended, "notcalled" when it was not run
    stdout,       \* what the export printed
    opener,       \* how `taskopen --version` ended, "notcalled" when not run
    handler,      \* the listener the router dispatched to
    emitted,      \* export positions in the order ListTasks appended items
    result        \* what on_event handed back to the host

vars == <<preferences, pc, query, origin, probe, export, stdout, opener,
          handler, emitted, result>>

NoResultYet == [kind |-> "Pending", items |-> <<>>, exc |-> "none"]
Typed == [kind |-> "typed", uuid |-> <<>>]

Init ==
    /\ preferences \in PreferencesChoices
    /\ pc = "idle"
    /\ query = [keyword |-> <<>>, argument |-> <<>>]
    /\ origin = Typed
    /\ probe = "notcalled"
    /\ export = "notcalled"
    /\ stdout = NoStdout
    /\ opener = "notcalled"
    /\ handler = "none"
    /\ emitted = <<>>
    /\ result = NoResultYet

Reset ==
    /\ probe' = "notcalled"
    /\ export' = "notcalled"
    /\ stdout' = NoStdout
    /\ opener' = "notcalled"
    /\ handler' = "none"
    /\ emitted' = <<>>
    /\ result' = NoResultYet

\* the host delivers a KeywordQueryEvent for what the user typed
KeywordQuery ==
    /\ pc = "idle"
    /\ \E q \in TypedQueries : query' = q
    /\ pc' = "pending"
    /\ origin' = Typed
    /\ UNCHANGED <<preferences, probe, export, stdout, opener, handler,
                   emitted, result>>

\* the external invocations on_event makes for this query
ExportRuns(p, target) ==
    IF p = "ok" /\ target = "ListTasks" THEN RunOutcomes ELSE {"notcalled"}
ExportStdouts(e) == IF e = "ok" THEN Stdouts ELSE {NoStdout}
OpenerRuns(p, target) ==
    IF p = "ok" /\ target = "ActionMenu" /\ "annotate_kw" \in DOMAIN preferences
    THEN RunOutcomes ELSE {"notcalled"}

\* KeywordQueryEventListener.on_event, start to end
OnEvent ==
    /\ pc = "pending"
    /\ LET target == RouteTarget(query.keyword, query.argument, preferences) IN
       \E p \in RunOutcomes :
       \E e \in ExportRuns(p, target) :
       \E so \in ExportStdouts(e) :
       \E o \in OpenerRuns(p, target) :
          LET r == KeywordQueryEventListener_on_event(query.keyword,
                       query.argument, preferences, p, e, so, o)
          IN /\ probe' = p
             /\ export' = e
             /\ stdout' = so
             /\ opener' = o
             /\ handler' = r.handler
             /\ result' = r.result
             /\ emitted' = IF r.handler = "ListTasks" /\ ListRendered(e, so)
                           THEN ListEmitted(so.tasks, preferences) ELSE <<>>
             /\ pc' = IF r.result.kind = "Block" THEN "blocked" ELSE "done"
    /\ UNCHANGED <<preferences, query, origin>>

\* the user presses Enter on an item whose action is SetUserQueryAction:
\* the host puts the text in the input box and delivers it as the next query
SelectItem ==
    /\ pc = "done"
    /\ result.kind = "Render"
    /\ \E i \in 1..Len(result.items) :
          /\ result.items[i].on_enter.type = "SetUserQuery"
          /\ query' = HostParse(result.items[i].on_enter.arg)
          /\ origin' = IF handler = "ListTasks"
                       THEN [kind |-> "task",
                             uuid |-> stdout.tasks[emitted[i]].val.uuid]
                       ELSE IF handler = "ActionMenu" /\ origin.kind = "task"
                       THEN [kind |-> "annotate", uuid |-> origin.uuid]
                       ELSE Typed
    /\ pc' = "pending"
    /\ Reset
    /\ UNCHANGED preferences

\* the result is discarded: the user runs a command item, dismisses the
\* window or clears the input box
Dismiss ==
    /\ pc = "done"
    /\ pc' = "idle"
    /\ query' = [keyword |-> <<>>, argument |-> <<>>]
    /\ origin' = Typed
    /\ Reset
    /\ UNCHANGED preferences

Next == KeywordQuery \/ OnEvent \/ SelectItem \/ Dismiss

Spec == Init /\ [][Next]_vars

\* ================================================================== claims
Returned == pc \in {"done", "blocked"}

FullPreferences == DOMAIN preferences = {"list_kw", "add_kw", "annotate_kw"}

HexDigits == {"0", "1", "2", "3", "4", "5", "6", "7", "8", "9",
              "a", "b", "c", "d", "e", "f", "A", "B", "C", "D", "E", "F"}

HyphenPositions == {9, 14, 19, 24}

\* the exact identifier format: 36 characters, hyphens at 9, 14, 19 and 24,
\* hex digits of either case everywhere else
IsIdentifier(s) ==
    /\ Len(s) = 36
    /\ \A i \in 1..36 : IF i \in HyphenPositions THEN s[i] = "-"
                        ELSE s[i] \in HexDigits

\* one item that only dismisses the window
SingleNotice(r) ==
    /\ r.kind = "Render"
    /\ Len(r.items) = 1
    /\ r.items[1].on_enter = HideWindowAction

\* C1: with the probe succeeding and all three keywords configured, a
\* list-keyword query goes to ActionMenu exactly when its trimmed argument
\* has the exact identifier format and to ListTasks otherwise; the add
\* keyword goes to AddTask, the annotate keyword to Annotate, and any other
\* keyword reaches no listener and yields no result.
C1_Routing ==
    (Returned /\ probe = "ok" /\ FullPreferences) =>
        CASE query.keyword = ListKw ->
                 handler = IF IsIdentifier(Strip(query.argument))
                           THEN "ActionMenu" ELSE "ListTasks"
          [] query.keyword = AddKw -> handler = "AddTask"
          [] query.keyword = AnnotateKw -> handler = "Annotate"
          [] OTHER -> handler = "none" /\ result = ReturnNone

\* a valid identifier with one extra trailing character was listed, not opened
C1_Witness ==
    /\ pc = "done" /\ probe = "ok" /\ FullPreferences
    /\ query = [keyword |-> ListKw, argument |-> U1 \o <<"x">>]
    /\ handler = "ListTasks"

\* C2: a query whose version probe fails (binary missing, non-zero exit, or
\* binary not executable) returns exactly the one ToolUnavailable item,
\* whatever the keyword and argument, and runs no handler: no listener is
\* reached, no export and no opener probe is made.
C2_ProbeFailureShortCircuits ==
    (Returned /\ probe \in {"notfound", "nonzero", "noexec"}) =>
        /\ SingleNotice(result)
        /\ result.items[1].name = <<"Taskwarrior not found.">>
        /\ handler = "none"
        /\ export = "notcalled"
        /\ opener = "notcalled"

ValidRecord(t) ==
    t.type = "dict" /\ {"description", "uuid"} \subseteq DOMAIN t.val

ValidPositions(tasks) == {i \in 1..Len(tasks) : ValidRecord(tasks[i])}

\* C4: when the export succeeds and yields zero valid tasks (empty stdout,
\* an empty array, or an array whose records are all dropped), ListTasks
\* returns exactly one "no tasks" item.
C4_NoTasksItem ==
    (pc = "done" /\ handler = "ListTasks" /\ export = "ok"
       /\ (stdout.kind = "empty"
             \/ (stdout.kind = "array" /\ ValidPositions(stdout.tasks) = {}))) =>
        /\ SingleNotice(result)
        /\ result.items[1].name[1] = "No tasks found for filter: '"

UrgencyOrZero(t) == IF "urgency" \in DOMAIN t.val THEN t.val.urgency ELSE 0

\* C5: the items ListTasks emits are in non-increasing order of urgency
\* (absent counting as 0), and tasks of equal urgency keep the relative
\* order they have in the export output.
C5_SortedStable ==
    /\ Len(emitted) > 0 => result.kind = "Render" /\ Len(result.items) = Len(emitted)
    /\ \A i, j \in 1..Len(emitted) :
          i < j =>
             LET a == stdout.tasks[emitted[i]]
                 b == stdout.tasks[emitted[j]]
             IN /\ UrgencyOrZero(a) >= UrgencyOrZero(b)
                /\ UrgencyOrZero(a) = UrgencyOrZero(b) => emitted[i] < emitted[j]
                /\ result.items[i].on_enter.arg = ListKw \o <<" ">> \o a.val.uuid

\* three items: a later task moved ahead of one without urgency, and two
\* tasks of equal urgency kept their order
C5_Witness ==
    /\ Len(emitted) = 3
    /\ emitted[1] < emitted[2]
    /\ emitted[3] < emitted[1]
    /\ UrgencyOrZero(stdout.tasks[emitted[1]]) = UrgencyOrZero(stdout.tasks[emitted[2]])
    /\ "urgency" \notin DOMAIN stdout.tasks[emitted[3]].val

\* C6: a listed task's label is its description when that has at most 50
\* characters, and otherwise the first 47 characters followed by "...";
\* no label is longer than 50 characters.
C6_Label ==
    \A i \in 1..Len(emitted) :
        LET d == stdout.tasks[emitted[i]].val.description
            label == result.items[i].name
        IN /\ Len(d) <= 50 => label = d
           /\ Len(d) > 50 =>
                 /\ Len(label) = 50
                 /\ SubSeq(label, 1, 47) = SubSeq(d, 1, 47)
                 /\ SubSeq(label, 48, 50) = <<".", ".", ".">>
           /\ Len(label) <= 50

\* a 51-character description was shortened next to a 50-character one kept
C6_Witness ==
    /\ \E i \in 1..Len(emitted) :
          /\ Len(stdout.tasks[emitted[i]].val.description) = 51
          /\ Len(result.items[i].name) = 50
    /\ \E i \in 1..Len(emitted) :
          /\ Len(stdout.tasks[emitted[i]].val.description) = 50
          /\ result.items[i].name = stdout.tasks[emitted[i]].val.description

\* How a POSIX shell splits a command line into words: blanks separate
\* words outside quotes, '...' keeps everything literal, "..." keeps blanks
\* and single quotes literal, a backslash outside quotes keeps the next
\* character, and an unquoted or double-quoted $ starts an expansion (shown
\* as the atom "<expansion>"); an unclosed quote adds the word "<unclosed>".
RECURSIVE ShellWords(_, _, _, _, _)
ShellWords(s, mode, inword, cur, words) ==
    IF s = <<>>
    THEN IF mode # "plain" THEN Append(words, <<"<unclosed>">>)
         ELSE IF inword THEN Append(words, cur) ELSE words
    ELSE LET c == Head(s) r == Tail(s) IN
         CASE mode = "single" ->
                 IF c = "'" THEN ShellWords(r, "plain", TRUE, cur, words)
                 ELSE ShellWords(r, mode, TRUE, Append(cur, c), words)
           [] mode = "double" ->
                 IF c = "\"" THEN ShellWords(r, "plain", TRUE, cur, words)
                 ELSE IF c = "$"
                 THEN ShellWords(r, mode, TRUE, Append(cur, "<expansion>"), words)
                 ELSE ShellWords(r, mode, TRUE, Append(cur, c), words)
           [] mode = "escape" ->
                 ShellWords(r, "plain", TRUE, Append(cur, c), words)
           [] OTHER ->
                 IF c \in Whitespace
                 THEN ShellWords(r, mode, FALSE, <<>>,
                                 IF inword THEN Append(words, cur) ELSE words)
                 ELSE IF c = "'" THEN ShellWords(r, "single", TRUE, cur, words)
                 ELSE IF c = "\"" THEN ShellWords(r, "double", TRUE, cur, words)
                 ELSE IF c = "\\" THEN ShellWords(r, "escape", TRUE, cur, words)
                 ELSE IF c = "$"
                 THEN ShellWords(r, mode, TRUE, Append(cur, "<expansion>"), words)
                 ELSE ShellWords(r, mode, TRUE, Append(cur, c), words)

\* position of the first space of s, 0 when s has none
FirstSpace(s) ==
    IF \E i \in 1..Len(s) : s[i] = " "
    THEN CHOOSE i \in 1..Len(s) : s[i] = " " /\ \A j \in 1..(i - 1) : s[j] # " "
    ELSE 0

\* C7: an Annotate argument without a space (the empty one included) gets
\* exactly one usage item with no command; an argument with a space gets
\* exactly one item whose command is `task <before the first space>
\* annotate <quoted>` where <quoted> is read back by the shell as the single
\* word that is the entire remainder after the first space.
C7_Annotate ==
    (pc = "done" /\ handler = "Annotate") =>
        LET a == query.argument
            k == FirstSpace(a)
            head == <<"task", " ">> \o SubSeq(a, 1, k - 1) \o <<" ", "annotate", " ">>
            command == result.items[1].on_enter.arg
        IN /\ result.kind = "Render"
           /\ Len(result.items) = 1
           /\ IF k = 0
              THEN /\ result.items[1].on_enter = HideWindowAction
                   /\ result.items[1].name = <<"Usage: ta <uuid> <annotation text>">>
              ELSE /\ result.items[1].on_enter.type = "RunScript"
                   /\ Len(command) >= Len(head)
                   /\ SubSeq(command, 1, Len(head)) = head
                   /\ ShellWords(Suffix(command, Len(head)), "plain", FALSE, <<>>, <<>>)
                        = <<SubSeq(a, k + 1, Len(a))>>

\* an annotation with spaces, a single quote and a dollar sign was quoted
C7_Witness ==
    /\ pc = "done" /\ handler = "Annotate"
    /\ query.argument = U1 \o <<" ", "i", "t", "'", "s", " ", "$", "x">>
    /\ result.kind = "Render"
    /\ result.items[1].on_enter.type = "RunScript"

\* C8: no failure raised while a query is handled leaves on_event: the
\* call never ends with an exception, and a failed export is reported as
\* one error item that carries the failure's description.
C8_NoFaultEscapes ==
    /\ result.kind # "Raise"
    /\ (pc = "done" /\ export \in DOMAIN ExcOf) =>
          SingleNotice(result) /\ result.items[1].description = <<ExcOf[export]>>

\* C9: when the export prints an array that holds at least one valid
\* record, every valid record is emitted as an item and every malformed
\* one (missing description or uuid, or not an object) is dropped.
C9_TolerantValidation ==
    (pc = "done" /\ handler = "ListTasks" /\ export = "ok"
       /\ stdout.kind = "array" /\ ValidPositions(stdout.tasks) # {}) =>
        /\ result.kind = "Render"
        /\ Len(result.items) = Cardinality(ValidPositions(stdout.tasks))
        /\ {emitted[i] : i \in 1..Len(emitted)} = ValidPositions(stdout.tasks)

\* C10: every query gets its result even when the external tool never
\* exits: on_event is never left waiting without end on an invocation, and
\* an export that ran too long is reported as one error item.
C10_EveryQueryReturns ==
    /\ pc # "blocked"
    /\ (pc = "done" /\ "hang" \in {probe, export, opener}) => SingleNotice(result)

====
